---- MODULE Spec2Model ----
(***************************************************************************)
(* Model of find_versions.py: the shot-name / version-token parsing, the   *)
(* version-zero and latest-version lookups, and the batch loop of the      *)
(* script's main section.                                                  *)
(*                                                                         *)
(* Strings are sequences of one-character strings.  A path is a record     *)
(* <<dir, name>>; a directory is a tuple of path components.  The file       *)
(* system maps every directory the script can derive to NoDir or to the    *)
(* directory's listing, in the order the directory scan yields it; names   *)
(* are matched case-sensitively, as on a POSIX file system.  The progress  *)
(* texts and percentages of the loop (task.setMessage, task.setProgress)   *)
(* and the geometry and colours of the layout are left out.                *)
(***************************************************************************)
EXTENDS Integers, Sequences, FiniteSets, TLC

VARIABLES
    fs,              \* directory -> NoDir | DirOf(listing of file names)
    config_file,     \* state of CONFIG_PATH: "missing" | "unreadable" | "empty" | config record
    selected,        \* nuke.selectedNodes("Read"): sequence of paths (node["file"] values)
    pc,              \* position of the main section
    entries,         \* list of [shot_name, node]
    v0_results,
    latest_results,
    cancelled,
    idx,             \* index of the entry the for-loop is at
    taskCancelled,   \* what task.isCancelled() answers (set by the user)
    polls,           \* number of task.isCancelled() calls made
    signalAt,        \* the loop's progress when the user signalled cancellation
    messages,        \* nuke.message calls, in order
    raised,          \* an exception left the script
    nodes,           \* nodes created in the node graph, in order
    call             \* a direct call of one of the functions, with its result

vars == <<fs, config_file, selected, pc, entries, v0_results, latest_results,
          cancelled, idx, taskCancelled, polls, signalAt, messages, raised,
          nodes, call>>

\* Python's None: a value no string, path or listing equals
None == <<"None">>

\* a directory that does not exist, and one that holds the listing l
NoDir == [exists |-> FALSE, listing |-> <<>>]
DirOf(l) == [exists |-> TRUE, listing |-> l]

(* ------------------------------ bounds -------------------------------- *)

MaxFiles == 3        \* files in a directory listing (direct calls)
MaxSelected == 3     \* selected Read nodes

(* ----------------------------- characters ----------------------------- *)

Lower == {"a","b","c","d","e","f","g","h","i","j","k","l","m",
          "n","o","p","q","r","s","t","u","v","w","x","y","z"}
Upper == {"A","B","C","D","E","F","G","H","I","J","K","L","M",
          "N","O","P","Q","R","S","T","U","V","W","X","Y","Z"}
DigitChars == <<"0","1","2","3","4","5","6","7","8","9">>
Digit == {DigitChars[i] : i \in 1..10}

\* the characters of the names and patterns of the model
Chars == Lower \cup Upper \cup Digit \cup {"_", ".", "*", "?"}

DigitVal(c) == (CHOOSE i \in 1..10 : DigitChars[i] = c) - 1

\* int(digits)
RECURSIVE ParseInt(_)
ParseInt(ds) ==
    IF ds = <<>> THEN 0
    ELSE ParseInt(SubSeq(ds, 1, Len(ds) - 1)) * 10 + DigitVal(ds[Len(ds)])

\* str.endswith
EndsWith(s, t) ==
    /\ Len(s) >= Len(t)
    /\ SubSeq(s, Len(s) - Len(t) + 1, Len(s)) = t

\* length of the longest run of characters of cs at the end of s
RECURSIVE TrailingRun(_, _)
TrailingRun(s, cs) ==
    IF s = <<>> \/ s[Len(s)] \notin cs THEN 0
    ELSE 1 + TrailingRun(SubSeq(s, 1, Len(s) - 1), cs)

\* length of the longest run of characters of cs at the start of s
RECURSIVE LeadingRun(_, _)
LeadingRun(s, cs) ==
    IF s = <<>> \/ Head(s) \notin cs THEN 0
    ELSE 1 + LeadingRun(Tail(s), cs)

\* str.rfind("."): the index of the last dot, 0 when there is none
RECURSIVE LastDot(_)
LastDot(name) ==
    IF name = <<>> THEN 0
    ELSE IF name[Len(name)] = "." THEN Len(name)
    ELSE LastDot(SubSeq(name, 1, Len(name) - 1))

\* PurePath.suffix: from the last dot, unless the dot starts or ends the name
Suffix(name) ==
    LET i == LastDot(name)
    IN  IF 1 < i /\ i < Len(name) THEN SubSeq(name, i, Len(name)) ELSE <<>>

\* PurePath.stem, os.path.splitext(name)[0]
Stem(name) ==
    LET i == LastDot(name)
    IN  IF 1 < i /\ i < Len(name) THEN SubSeq(name, 1, i - 1) ELSE name

\* fnmatch of one path component: * is any run of characters, ? any one
\* character, everything else stands for itself (case-sensitive)
RECURSIVE GlobMatch(_, _)
GlobMatch(pat, s) ==
    IF pat = <<>> THEN s = <<>>
    ELSE IF Head(pat) = "*"
         THEN GlobMatch(Tail(pat), s) \/ (s # <<>> /\ GlobMatch(pat, Tail(s)))
    ELSE IF s = <<>> THEN FALSE
    ELSE (Head(pat) = "?" \/ Head(pat) = Head(s)) /\ GlobMatch(Tail(pat), Tail(s))

(* ------------------------------ file system --------------------------- *)

\* vfx_dir.exists()
DirExists(d) == fs[d].exists

\* vfx_dir.glob(pat): the entries of the directory that match, in scan order
Glob(d, pat) ==
    SelectSeq(fs[d].listing, LAMBDA n : GlobMatch(pat, n))

\* str(f) of an entry of a directory: the pair (directory, name)
PathOf(d, n) == <<d, n>>

\* os.path.basename
Basename(p) == p[2]

(* ------------------------------ name parser --------------------------- *)

\* the two shot patterns a configuration is drawn from
RegexOneLetter == "^([A-Z]+_[0-9]+[a-z]?)"
RegexAnyLetters == "^([A-Z]+_[0-9]+[a-z]*)"

\* re.match(shot_regex, stem).group(1), None without a match
ReMatchShot(shot_regex, stem) ==
    LET nu == LeadingRun(stem, Upper)
        r1 == SubSeq(stem, nu + 1, Len(stem))
        r2 == IF r1 = <<>> THEN <<>> ELSE Tail(r1)
        nd == LeadingRun(r2, Digit)
        r3 == SubSeq(r2, nd + 1, Len(r2))
        run == LeadingRun(r3, Lower)
        nl == IF shot_regex = RegexOneLetter /\ run > 1 THEN 1 ELSE run
    IN  IF nu >= 1 /\ r1 # <<>> /\ Head(r1) = "_" /\ nd >= 1
        THEN SubSeq(stem, 1, nu + 1 + nd + nl)
        ELSE None

_extract_shot_name(filename, shot_regex) ==
    ReMatchShot(shot_regex, Stem(filename))

\* re.search(r"_(v\d+)", stem).group(1), None without a match
RECURSIVE SearchVLabel(_)
SearchVLabel(s) ==
    IF Len(s) < 3 THEN None
    ELSE IF s[1] = "_" /\ s[2] = "v" /\ s[3] \in Digit
         THEN SubSeq(s, 2, 2 + LeadingRun(SubSeq(s, 3, Len(s)), Digit))
    ELSE SearchVLabel(Tail(s))

\* as _shot_base with [a-z0-9]$ for the pattern
_shot_base_letter_or_digit(shot_name) ==
    IF shot_name # <<>> /\ shot_name[Len(shot_name)] \in Lower \cup Digit
    THEN SubSeq(shot_name, 1, Len(shot_name) - 1)
    ELSE shot_name

\* re.sub(r"[a-z]$", "", shot_name)
_shot_base(shot_name) ==
    IF shot_name # <<>> /\ shot_name[Len(shot_name)] \in Lower
    THEN SubSeq(shot_name, 1, Len(shot_name) - 1)
    ELSE shot_name

(* ------------------------------ path deriver -------------------------- *)

shot_tree_root == "shot_tree_root"
version_subfolder == "_vfx"

\* base.split("_")[0]
SplitFirst(s) == SubSeq(s, 1, LeadingRun(s, Chars \ {"_"}))

\* as _build_vfx_path with the shot name, variant letter kept, for shot_dir
_build_vfx_path_keep_letter(shot_name) ==
    LET base == _shot_base(shot_name)
        seq == SplitFirst(base)
        shot_dir == shot_name
    IN  <<shot_tree_root, seq, shot_dir, version_subfolder>>

_build_vfx_path(shot_name) ==
    LET base == _shot_base(shot_name)
        seq == SplitFirst(base)
        shot_dir == base
    IN  <<shot_tree_root, seq, shot_dir, version_subfolder>>

(* ------------------------------ version resolver ---------------------- *)

VFX == <<"_","v","f","x">>

\* version_re.search(stem) for _([a-z])(\d+)_vfx$ : the groups <<letter, digits>>, or None
VersionSearch(stem) ==
    IF ~EndsWith(stem, VFX) THEN None
    ELSE LET body == SubSeq(stem, 1, Len(stem) - Len(VFX))
             n == TrailingRun(body, Digit)
             k == Len(body) - n
         IN  IF n >= 1 /\ k >= 2 /\ body[k] \in Lower /\ body[k - 1] = "_"
             THEN <<body[k], SubSeq(body, k + 1, Len(body))>>
             ELSE None

_extract_version_label(filename) ==
    LET stem == Stem(filename)
        m == VersionSearch(stem)
        v == SearchVLabel(stem)
    IN  IF m # None THEN <<m[1]>> \o m[2]
        ELSE IF v # None THEN v
        ELSE <<>>

ZeroPatterns(base, file_ext) ==
    << base \o <<"_","*","_","?","0","0","0","0">> \o VFX \o file_ext,
       base \o <<"_","?","0","0","0","0">> \o VFX \o file_ext >>

\* as LatestPattern with the base shot name and any variant letter
LatestPatternAnyVariant(shot_name, file_ext) ==
    _shot_base(shot_name) \o <<"*","_","*","_","?","*">> \o VFX \o file_ext

LatestPattern(shot_name, file_ext) ==
    shot_name \o <<"_","*","_","?","*">> \o VFX \o file_ext

\* [f for f in vfx_dir.glob(pat) if f.suffix == file_ext]
GlobExt(d, pat, file_ext) ==
    SelectSeq(Glob(d, pat), LAMBDA n : Suffix(n) = file_ext)

\* as _find_version_zero with the exact shot name in the patterns
_find_version_zero_exact(shot_name, vfx_dir, file_ext) ==
    IF ~DirExists(vfx_dir) THEN None
    ELSE LET patterns == ZeroPatterns(shot_name, file_ext)
             m1 == GlobExt(vfx_dir, patterns[1], file_ext)
             m2 == GlobExt(vfx_dir, patterns[2], file_ext)
         IN  IF m1 # <<>> THEN PathOf(vfx_dir, m1[1])
             ELSE IF m2 # <<>> THEN PathOf(vfx_dir, m2[1])
             ELSE None

_find_version_zero(shot_name, vfx_dir, file_ext) ==
    IF ~DirExists(vfx_dir) THEN None
    ELSE LET base == _shot_base(shot_name)
             patterns == ZeroPatterns(base, file_ext)
             m1 == GlobExt(vfx_dir, patterns[1], file_ext)
             m2 == GlobExt(vfx_dir, patterns[2], file_ext)
         IN  IF m1 # <<>> THEN PathOf(vfx_dir, m1[1])
             ELSE IF m2 # <<>> THEN PathOf(vfx_dir, m2[1])
             ELSE None

\* as Versions without the exclude_filename test of line 105
VersionsKeepExcluded(matching_files, exclude_filename) ==
    LET kept == SelectSeq(matching_files, LAMBDA n : VersionSearch(Stem(n)) # None)
    IN  [i \in 1..Len(kept) |->
            <<ParseInt(VersionSearch(Stem(kept[i]))[2]), kept[i]>>]

\* the (number, name) pairs of lines 103-109, in scan order
Versions(matching_files, exclude_filename) ==
    LET kept == SelectSeq(matching_files,
                    LAMBDA n : /\ ~(exclude_filename # None /\ exclude_filename # <<>>
                                     /\ n = exclude_filename)
                               /\ VersionSearch(Stem(n)) # None)
    IN  [i \in 1..Len(kept) |->
            <<ParseInt(VersionSearch(Stem(kept[i]))[2]), kept[i]>>]

\* as SortedFirst without reverse=True
SortedFirstAscending(versions) ==
    LET low == CHOOSE i \in 1..Len(versions) :
                 /\ \A j \in 1..Len(versions) : versions[j][1] >= versions[i][1]
                 /\ \A j \in 1..(i - 1) : versions[j][1] > versions[i][1]
    IN  versions[low]

\* versions.sort(key=lambda x: x[0], reverse=True); versions[0]: the sort is
\* stable, so among equal numbers the first in scan order comes first
SortedFirst(versions) ==
    LET top == CHOOSE i \in 1..Len(versions) :
                 /\ \A j \in 1..Len(versions) : versions[j][1] <= versions[i][1]
                 /\ \A j \in 1..(i - 1) : versions[j][1] < versions[i][1]
    IN  versions[top]

_find_latest_version(shot_name, vfx_dir, file_ext, exclude_filename) ==
    IF ~DirExists(vfx_dir) THEN None
    ELSE LET matching_files == GlobExt(vfx_dir, LatestPattern(shot_name, file_ext), file_ext)
             versions == Versions(matching_files, exclude_filename)
         IN  IF matching_files = <<>> THEN None
             ELSE IF versions = <<>> THEN None
             ELSE PathOf(vfx_dir, SortedFirst(versions)[2])

(* ------------------------------ the inputs ---------------------------- *)

S1 == <<"S","_","1">>
S1a == S1 \o <<"a">>
S1b == S1 \o <<"b">>
S1ab == S1 \o <<"a","b">>

MOV == <<".","m","o","v">>
EXR == <<".","e","x","r">>
SegC == <<"_","c">>
NoSeg == <<>>

\* <shot>[_<segment>]_<token>_vfx<ext>
FileName(shot, seg, token, ext) == shot \o seg \o <<"_">> \o token \o VFX \o ext

F_S1_c_u0000 == FileName(S1, SegC, <<"u","0","0","0","0">>, MOV)
F_S1_w0000 == FileName(S1, NoSeg, <<"w","0","0","0","0">>, MOV)
F_S1_c_10000 == FileName(S1, SegC, <<"1","0","0","0","0">>, MOV)
F_S1a_c_u0003 == FileName(S1a, SegC, <<"u","0","0","0","3">>, MOV)
F_S1a_c_w0012 == FileName(S1a, SegC, <<"w","0","0","1","2">>, MOV)
F_S1a_c_u0012 == FileName(S1a, SegC, <<"u","0","0","1","2">>, MOV)
F_S1b_c_w0020 == FileName(S1b, SegC, <<"w","0","0","2","0">>, MOV)
F_S1a_c_99 == FileName(S1a, SegC, <<"9","9">>, MOV)
F_S1a_c_w0012_exr == FileName(S1a, SegC, <<"w","0","0","1","2">>, EXR)
F_S1a_u0030 == FileName(S1a, NoSeg, <<"u","0","0","3","0">>, MOV)
F_S1a_c_u0000 == FileName(S1a, SegC, <<"u","0","0","0","0">>, MOV)
F_S1ab_c_u0005 == FileName(S1ab, SegC, <<"u","0","0","0","5">>, MOV)
F_ref == <<"r","e","f">> \o MOV

\* the file names a directory of the direct calls is filled from
FileUniverse ==
    { F_S1_c_u0000, F_S1_w0000, F_S1_c_10000, F_S1a_c_u0003, F_S1a_c_w0012,
      F_S1a_c_u0012, F_S1b_c_w0020, F_S1a_c_99, F_S1a_c_w0012_exr, F_S1a_u0030,
      F_S1a_c_u0000 }

\* the shot names the two patterns yield from such file names
ShotNames ==
    {_extract_shot_name(f, r) : f \in FileUniverse \cup {F_S1ab_c_u0005},
                                r \in {RegexOneLetter, RegexAnyLetters}} \ {None}
Exts == {MOV, EXR}

DirPaths == {_build_vfx_path(x) : x \in ShotNames}
Dir1 == _build_vfx_path(S1)
Dir1a == _build_vfx_path(S1ab)

Range(s) == {s[i] : i \in 1..Len(s)}

\* the listings of at most n distinct names of U, in every scan order
ListingsOf(U, n) ==
    {l \in UNION {[1..m -> U] : m \in 0..n} :
        \A i, j \in 1..Len(l) : i < j => l[i] # l[j]}

(* ------------------------------ the script ---------------------------- *)

NoCall == [fn |-> "none"]
NoSignal == [pc |-> "none", idx |-> 0, started |-> 0]

Idle ==
    /\ config_file = [state |-> "missing", shot_regex |-> "", file_extension |-> <<>>]
    /\ selected = <<>>
    /\ entries = <<>>
    /\ v0_results = <<>>
    /\ latest_results = <<>>
    /\ cancelled = FALSE
    /\ idx = 1
    /\ taskCancelled = FALSE
    /\ polls = 0
    /\ signalAt = NoSignal
    /\ messages = <<>>
    /\ raised = FALSE
    /\ nodes = <<>>

mainVars == <<config_file, selected, pc, entries, v0_results, latest_results,
              cancelled, idx, taskCancelled, polls, signalAt, messages, raised,
              nodes>>

Elsewhere == <<"elsewhere">>

\* the files of the Read nodes a user selects
In_S1a == PathOf(Dir1, F_S1a_c_w0012)
In_S1 == PathOf(Dir1, F_S1_c_u0000)
In_S1ab == PathOf(Dir1a, F_S1ab_c_u0005)
In_ref == PathOf(Elsewhere, F_ref)
Inputs == {In_S1a, In_S1, In_S1ab, In_ref}

\* the directory of the base shot holds any part of this listing
BatchListing == <<F_S1a_c_u0003, F_S1a_c_w0012, F_S1_c_u0000, F_S1b_c_w0020>>
BatchListings ==
    {SelectSeq(BatchListing, LAMBDA n : n \in S) : S \in SUBSET Range(BatchListing)}
VariantListing == <<F_S1a_c_u0000, F_S1ab_c_u0005>>

NoConfig(s) == [state |-> s, shot_regex |-> "", file_extension |-> <<>>]
ConfigFiles ==
    {NoConfig(s) : s \in {"missing", "unreadable", "empty"}}
    \cup {[state |-> "ok", shot_regex |-> r, file_extension |-> MOV] :
            r \in {RegexOneLetter, RegexAnyLetters}}

Init ==
    /\ fs \in {[d \in DirPaths |-> IF d = Dir1 THEN d1 ELSE d2] :
                 d1 \in {NoDir} \cup {DirOf(l) : l \in BatchListings},
                 d2 \in {NoDir, DirOf(VariantListing)}}
    /\ config_file \in ConfigFiles
    /\ selected \in UNION {[1..n -> Inputs] : n \in 0..MaxSelected}
    /\ pc = "start"
    /\ entries = <<>>
    /\ v0_results = <<>>
    /\ latest_results = <<>>
    /\ cancelled = FALSE
    /\ idx = 1
    /\ taskCancelled = FALSE
    /\ polls = 0
    /\ signalAt = NoSignal
    /\ messages = <<>>
    /\ raised = FALSE
    /\ nodes = <<>>
    /\ call = NoCall

\* as LoadConfig going on without a configuration
LoadConfigProceeds ==
    /\ pc = "start"
    /\ messages' = IF config_file.state = "missing"
                   THEN Append(messages, <<"Config not found">>)
                   ELSE messages
    /\ raised' = (config_file.state = "unreadable")
    /\ pc' = "select"
    /\ UNCHANGED <<fs, config_file, selected, entries, v0_results, latest_results,
                   cancelled, idx, taskCancelled, polls, signalAt, nodes, call>>

\* lines 23-28, 137-138: config = _load_config(); if config is not None
LoadConfig ==
    /\ pc = "start"
    /\ messages' = IF config_file.state = "missing"
                   THEN Append(messages, <<"Config not found">>)
                   ELSE messages
    /\ raised' = (config_file.state = "unreadable")
    /\ pc' = IF config_file.state = "ok" THEN "select" ELSE "exit"
    /\ UNCHANGED <<fs, config_file, selected, entries, v0_results, latest_results,
                   cancelled, idx, taskCancelled, polls, signalAt, nodes, call>>

\* lines 154-161: the entries of the nodes whose file name yields a shot name
ParseEntries(nodelist, shot_regex) ==
    LET parsed == [i \in 1..Len(nodelist) |->
                     << _extract_shot_name(Basename(nodelist[i]), shot_regex),
                        _extract_version_label(Basename(nodelist[i])),
                        nodelist[i] >>]
    IN  SelectSeq(parsed, LAMBDA e : e[1] # None /\ e[1] # <<>>)

\* lines 149-172
ParseSelection ==
    /\ pc = "select"
    /\ LET parsed == ParseEntries(selected, config_file.shot_regex)
       IN  IF selected = <<>>
           THEN /\ messages' = Append(messages, <<"Select one or more Read nodes first.">>)
                /\ pc' = "exit"
                /\ UNCHANGED entries
           ELSE /\ entries' = parsed
                /\ IF parsed = <<>>
                   THEN /\ messages' = Append(messages, <<"Could not parse shot names">>)
                        /\ pc' = "exit"
                   ELSE /\ pc' = "loop"
                        /\ UNCHANGED messages
    /\ UNCHANGED <<fs, config_file, selected, v0_results, latest_results, cancelled,
                   idx, taskCancelled, polls, signalAt, raised, nodes, call>>

\* the user presses Cancel on the progress task (it lives from line 168 to 193)
UserCancel ==
    /\ pc \in {"loop", "v0", "latest"}
    /\ ~taskCancelled
    /\ taskCancelled' = TRUE
    /\ signalAt' = [pc |-> pc, idx |-> idx,
                    started |-> Len(v0_results) + Len(latest_results)]
    /\ UNCHANGED <<fs, config_file, selected, pc, entries, v0_results, latest_results,
                   cancelled, idx, polls, messages, raised, nodes, call>>

\* as IsCancelled with the answer dropped
IsCancelledNever(flag) == FALSE

\* task.isCancelled()
IsCancelled(flag) == flag

\* lines 174-177: the head of the loop, with the loop's only poll
LoopPoll ==
    /\ pc = "loop"
    /\ idx <= Len(entries)
    /\ polls' = polls + 1
    /\ IF IsCancelled(taskCancelled)
       THEN /\ cancelled' = TRUE
            /\ pc' = "after"
       ELSE /\ pc' = "v0"
            /\ UNCHANGED cancelled
    /\ UNCHANGED <<fs, config_file, selected, entries, v0_results, latest_results,
                   idx, taskCancelled, signalAt, messages, raised, nodes, call>>

\* line 174: the entries are used up
LoopEnd ==
    /\ pc = "loop"
    /\ idx > Len(entries)
    /\ pc' = "after"
    /\ UNCHANGED <<fs, config_file, selected, entries, v0_results, latest_results,
                   cancelled, idx, taskCancelled, polls, signalAt, messages, raised,
                   nodes, call>>

\* lines 179-184 for one entry
EntryVersionZero(entry, file_ext) ==
    _find_version_zero(entry[1], _build_vfx_path(entry[1]), file_ext)

\* lines 179-180, 189 for one entry
EntryLatest(entry, file_ext) ==
    LET vfx_dir == _build_vfx_path(entry[1])
        selected_filename == Basename(entry[3])
    IN  _find_latest_version(entry[1], vfx_dir, file_ext, selected_filename)

\* lines 179-185
LookupVersionZero ==
    /\ pc = "v0"
    /\ v0_results' = Append(v0_results,
                            EntryVersionZero(entries[idx], config_file.file_extension))
    /\ pc' = "latest"
    /\ UNCHANGED <<fs, config_file, selected, entries, latest_results, cancelled, idx,
                   taskCancelled, polls, signalAt, messages, raised, nodes, call>>

\* as LookupLatest keeping only the lookups that found a file
LookupLatestSkipAbsent ==
    /\ pc = "latest"
    /\ LET found == EntryLatest(entries[idx], config_file.file_extension)
       IN  latest_results' = IF found = None THEN latest_results
                             ELSE Append(latest_results, found)
    /\ idx' = idx + 1
    /\ pc' = "loop"
    /\ UNCHANGED <<fs, config_file, selected, entries, v0_results, cancelled,
                   taskCancelled, polls, signalAt, messages, raised, nodes, call>>

\* lines 187-190
LookupLatest ==
    /\ pc = "latest"
    /\ latest_results' = Append(latest_results,
                                EntryLatest(entries[idx], config_file.file_extension))
    /\ idx' = idx + 1
    /\ pc' = "loop"
    /\ UNCHANGED <<fs, config_file, selected, entries, v0_results, cancelled,
                   taskCancelled, polls, signalAt, messages, raised, nodes, call>>

\* lines 221-255: per entry the selected, the latest and the version-zero cell
LayoutNodes ==
    [k \in 1..(3 * Len(entries)) |->
        LET col == ((k - 1) \div 3) + 1
            row == (k - 1) % 3
            fpath == IF row = 0 THEN entries[col][3]
                     ELSE IF row = 1 THEN latest_results[col]
                     ELSE v0_results[col]
        IN  IF fpath # None THEN <<"Read", fpath>> ELSE <<"NoOp", entries[col][1]>>]

\* lines 260-278
Summary ==
    LET missing_v0 == SelectSeq([i \in 1..Len(entries) |-> <<i, entries[i][1], entries[i][2]>>],
                                LAMBDA e : v0_results[e[1]] = None)
        missing_latest == SelectSeq([i \in 1..Len(entries) |-> <<i, entries[i][1], entries[i][2]>>],
                                    LAMBDA e : latest_results[e[1]] = None)
        found_count == Len(entries) - Len(missing_v0) + Len(entries) - Len(missing_latest)
    IN  <<"Done!", Len(entries), found_count, Len(entries) * 2, missing_v0, missing_latest>>

\* lines 192-196
FinishCancelled ==
    /\ pc = "after"
    /\ cancelled
    /\ messages' = Append(messages, <<"Cancelled.">>)
    /\ pc' = "exit"
    /\ UNCHANGED <<fs, config_file, selected, entries, v0_results, latest_results,
                   cancelled, idx, taskCancelled, polls, signalAt, raised, nodes, call>>

\* lines 192-193, 197-278
FinishLayout ==
    /\ pc = "after"
    /\ ~cancelled
    /\ nodes' = LayoutNodes
    /\ messages' = Append(messages, Summary)
    /\ pc' = "exit"
    /\ UNCHANGED <<fs, config_file, selected, entries, v0_results, latest_results,
                   cancelled, idx, taskCancelled, polls, signalAt, raised, call>>

Next ==
    \/ LoadConfig
    \/ ParseSelection
    \/ UserCancel
    \/ LoopPoll
    \/ LoopEnd
    \/ LookupVersionZero
    \/ LookupLatest
    \/ FinishCancelled
    \/ FinishLayout

Spec == Init /\ [][Next]_vars

(* ------------------------------ direct calls -------------------------- *)
(* The functions called on their own: the directory of the base shot holds  *)
(* any listing, the directory of the variant's base does not exist.         *)

InitResolver ==
    /\ fs \in {[d \in DirPaths |-> IF d = Dir1 THEN DirOf(l) ELSE NoDir] :
                 l \in ListingsOf(FileUniverse, MaxFiles)}
    /\ pc = "direct"
    /\ call = NoCall
    /\ Idle

\* the file names a caller passes as exclude_filename, and no name at all
Excludes(d) == {None} \cup Range(fs[d].listing)

CallShotBase ==
    /\ pc = "direct" /\ call = NoCall
    /\ \E x \in ShotNames :
         call' = [fn |-> "shot_base", shot_name |-> x, result |-> _shot_base(x)]
    /\ UNCHANGED <<fs, mainVars>>

CallVersionZero ==
    /\ pc = "direct" /\ call = NoCall
    /\ \E x \in ShotNames, d \in DirPaths, e \in Exts :
         call' = [fn |-> "version_zero", shot_name |-> x, vfx_dir |-> d,
                  file_ext |-> e, result |-> _find_version_zero(x, d, e)]
    /\ UNCHANGED <<fs, mainVars>>

CallLatestVersion ==
    /\ pc = "direct" /\ call = NoCall
    /\ \E x \in ShotNames, d \in DirPaths, e \in Exts :
         \E ex \in Excludes(d) :
           call' = [fn |-> "latest", shot_name |-> x, vfx_dir |-> d, file_ext |-> e,
                    exclude_filename |-> ex,
                    result |-> _find_latest_version(x, d, e, ex)]
    /\ UNCHANGED <<fs, mainVars>>

\* lines 156-161, 179-189 for one selected node: the latest lookup of its entry
CallEntryLatest ==
    /\ pc = "direct" /\ call = NoCall
    /\ \E n \in Range(fs[Dir1].listing) \cup {F_S1ab_c_u0005, F_ref},
          r \in {RegexOneLetter, RegexAnyLetters} :
         LET node == PathOf(Dir1, n)
             parsed == ParseEntries(<<node>>, r)
         IN  /\ parsed # <<>>
             /\ call' = [fn |-> "entry_latest", node |-> node,
                         shot_name |-> parsed[1][1],
                         vfx_dir |-> _build_vfx_path(parsed[1][1]), file_ext |-> MOV,
                         result |-> EntryLatest(parsed[1], MOV)]
    /\ UNCHANGED <<fs, mainVars>>

NextResolver == CallShotBase \/ CallVersionZero \/ CallLatestVersion \/ CallEntryLatest

SpecResolver == InitResolver /\ [][NextResolver]_vars


(* ------------------------------ properties ---------------------------- *)
(* What the properties say of file names is written out here on its own,   *)
(* by positions in the name, apart from the operators of the model.        *)

StartsWith(s, t) ==
    /\ Len(s) >= Len(t)
    /\ SubSeq(s, 1, Len(t)) = t

\* the value of a digit string: the sum of digit * 10^place
RECURSIVE PlaceValue(_, _)
PlaceValue(ds, i) ==
    IF i > Len(ds) THEN 0
    ELSE DigitVal(ds[i]) * (10 ^ (Len(ds) - i)) + PlaceValue(ds, i + 1)

\* the stem ends in _<lowercase letter><digits>_vfx, the token starting at k
TokenAt(stem, k) ==
    /\ EndsWith(stem, VFX)
    /\ k + 2 <= Len(stem) - Len(VFX)
    /\ stem[k] = "_"
    /\ stem[k + 1] \in Lower
    /\ \A q \in (k + 2)..(Len(stem) - Len(VFX)) : stem[q] \in Digit

HasStrictToken(n) == \E k \in 1..Len(Stem(n)) : TokenAt(Stem(n), k)

TokenDigits(n) ==
    LET stem == Stem(n)
        k == CHOOSE k \in 1..Len(stem) : TokenAt(stem, k)
    IN  SubSeq(stem, k + 2, Len(stem) - Len(VFX))

TokenNumber(n) == PlaceValue(TokenDigits(n), 1)

\* n is <x>_<anything>_<at least one character>_vfx<e>
MatchesCoarse(n, x, e) ==
    LET pre == x \o <<"_">>
        post == VFX \o e
    IN  /\ Len(n) >= Len(pre) + Len(post)
        /\ StartsWith(n, pre)
        /\ EndsWith(n, post)
        /\ \E q \in (Len(pre) + 1)..(Len(n) - Len(post) - 1) : n[q] = "_"

\* a surviving candidate of the latest lookup
Survives(n, x, e, ex) ==
    /\ MatchesCoarse(n, x, e)
    /\ Suffix(n) = e
    /\ ~(ex # None /\ n = ex)
    /\ HasStrictToken(n)

Survivors(c, ex) ==
    {n \in Range(fs[c.vfx_dir].listing) : Survives(n, c.shot_name, c.file_ext, ex)}

IsHighest(n, S) == \A m \in S : TokenNumber(m) <= TokenNumber(n)

\* C1: the latest lookup returns a surviving candidate of the highest number,
\* whatever its vendor letter, and None exactly when no candidate survives.
C1_LatestIsHighestSurvivor ==
    call.fn = "latest" =>
        LET S == Survivors(call, call.exclude_filename)
        IN  /\ (call.result = None) <=> (S = {})
            /\ call.result # None =>
                 /\ call.result[1] = call.vfx_dir
                 /\ call.result[2] \in S
                 /\ IsHighest(call.result[2], S)

\* three candidates and a file with more digits that fails the strict token
C1_Witness ==
    /\ call.fn = "latest"
    /\ call.shot_name = S1a
    /\ call.exclude_filename = None
    /\ Range(fs[Dir1].listing) = {F_S1a_c_99, F_S1a_c_u0003, F_S1a_c_w0012}
    /\ call.result = PathOf(Dir1, F_S1a_c_w0012)

\* the name a latest lookup was told to leave out
ExcludedOf(c) == IF c.fn = "entry_latest" THEN Basename(c.node) ELSE c.exclude_filename

\* C2: the latest lookup never returns the excluded file name; when the
\* excluded file is the highest candidate and another candidate exists, the
\* result is the highest of the others.  The lookup of an entry excludes the
\* entry's own file name, so its result never has that name.
C2_ExcludedNeverReturned ==
    (call.fn \in {"latest", "entry_latest"} /\ ExcludedOf(call) # None) =>
        LET ex == ExcludedOf(call)
            All == Survivors(call, None)
            Others == All \ {ex}
        IN  /\ call.result # None => call.result[2] # ex
            /\ (ex \in All /\ IsHighest(ex, All) /\ Others # {}) =>
                 /\ call.result # None
                 /\ call.result[2] \in Others
                 /\ IsHighest(call.result[2], Others)

\* the entry of the highest file finds the next-highest of two others
C2_Witness ==
    /\ call.fn = "entry_latest"
    /\ call.node = PathOf(Dir1, F_S1a_c_w0012)
    /\ Range(fs[Dir1].listing) = {F_S1a_c_w0012, F_S1a_c_u0003, F_S1a_c_u0000}
    /\ call.result = PathOf(Dir1, F_S1a_c_u0003)

\* C4: a file the latest lookup returns is named <shot name>_...: never a
\* file of a sibling variant, whatever its version number.
C4_LatestIsExactIdentity ==
    (call.fn \in {"latest", "entry_latest"} /\ call.result # None) =>
        /\ StartsWith(call.result[2], call.shot_name \o <<"_">>)
        /\ \A y \in ShotNames \ {call.shot_name} :
             _shot_base(y) = _shot_base(call.shot_name)
                => ~StartsWith(call.result[2], y \o <<"_">>)

\* siblings with and without a letter, one of a higher version
C4_Witness ==
    /\ call.fn = "latest"
    /\ call.shot_name = S1a
    /\ Range(fs[Dir1].listing) = {F_S1b_c_w0020, F_S1_c_u0000, F_S1a_c_u0003}
    /\ call.result = PathOf(Dir1, F_S1a_c_u0003)

\* C5: a file the version-zero lookup returns carries the token
\* _<vendor letter>0000_vfx.
C5_ZeroTokenOnly ==
    (call.fn = "version_zero" /\ call.result # None) =>
        /\ HasStrictToken(call.result[2])
        /\ TokenDigits(call.result[2]) = <<"0","0","0","0">>

EndsInTwoLetters(x) ==
    /\ Len(x) >= 2
    /\ x[Len(x)] \in Lower
    /\ x[Len(x) - 1] \in Lower

\* n is <base>_<segment>_<letter>0000_vfx<e> or <base>_<letter>0000_vfx<e>
ZeroNamed(n, base, e) ==
    \E l \in Lower :
        LET tail == <<"_", l, "0","0","0","0">> \o VFX \o e
        IN  \/ n = base \o tail
            \/ /\ Len(n) > Len(base) + 1 + Len(tail)
               /\ StartsWith(n, base \o <<"_">>)
               /\ EndsWith(n, tail)

HasZeroNamed(c) ==
    \E n \in Range(fs[c.vfx_dir].listing) :
        ZeroNamed(n, _shot_base(c.shot_name), c.file_ext)

\* C3 as stated: for every shot name the version-zero lookup gives what it
\* gives for the shot base, and finds a file whenever one is named for the base.
C3_Original ==
    call.fn = "version_zero" =>
        /\ call.result = _find_version_zero(_shot_base(call.shot_name),
                                            call.vfx_dir, call.file_ext)
        /\ HasZeroNamed(call) => call.result # None

\* C3 amended: the same for the shot names that do not end in two lowercase
\* letters.
C3_ZeroUsesShotBase ==
    call.fn = "version_zero" =>
        /\ ~EndsInTwoLetters(call.shot_name) =>
             call.result = _find_version_zero(_shot_base(call.shot_name),
                                              call.vfx_dir, call.file_ext)
        /\ HasZeroNamed(call) => call.result # None

\* the variant S_1a finds the version zero of S_1
C3_Witness ==
    /\ call.fn = "version_zero"
    /\ call.shot_name = S1a
    /\ call.file_ext = MOV
    /\ Range(fs[Dir1].listing) = {F_S1_c_u0000, F_S1a_c_u0003}
    /\ call.result = PathOf(Dir1, F_S1_c_u0000)

\* C9 as stated: _shot_base applied to its own result changes nothing.
C9_Original ==
    call.fn = "shot_base" => _shot_base(call.result) = call.result

\* C9 amended: so it is exactly for the shot names that do not end in two
\* lowercase letters.
C9_ShotBaseIdempotent ==
    call.fn = "shot_base" =>
        (_shot_base(call.result) = call.result) <=> ~EndsInTwoLetters(call.shot_name)

C9_Witness ==
    /\ call.fn = "shot_base"
    /\ call.shot_name = S1a
    /\ call.result = S1
    /\ _shot_base(call.result) = S1

\* the version directory of a shot: root / sequence code / shot base / subfolder
ExpectedDir(x) ==
    <<shot_tree_root, SplitFirst(_shot_base(x)), _shot_base(x), version_subfolder>>

ConfigOk == config_file.state = "ok"

\* C6: a lookup in a version directory that does not exist gives None; in the
\* batch such an entry gets None twice and the entries after it are looked up.
C6_MissingDirAbsent ==
    /\ \A i \in 1..Len(v0_results) :
         ~fs[ExpectedDir(entries[i][1])].exists => v0_results[i] = None
    /\ \A i \in 1..Len(latest_results) :
         ~fs[ExpectedDir(entries[i][1])].exists => latest_results[i] = None
    /\ \A d \in DirPaths, x \in ShotNames, e \in Exts :
         ~fs[d].exists =>
            /\ _find_version_zero(x, d, e) = None
            /\ \A ex \in {None, F_S1a_c_w0012} : _find_latest_version(x, d, e, ex) = None
    /\ (pc = "exit" /\ ~cancelled /\ entries # <<>>) =>
         /\ Len(v0_results) = Len(entries)
         /\ Len(latest_results) = Len(entries)
    /\ ConfigOk => ~raised

\* the first entry's directory is missing, the second entry finds its version zero
C6_Witness ==
    /\ pc = "exit"
    /\ ~cancelled
    /\ Len(entries) = 2
    /\ ~fs[ExpectedDir(entries[1][1])].exists
    /\ v0_results[1] = None
    /\ latest_results[1] = None
    /\ v0_results[2] # None

ShotOf(node) == _extract_shot_name(Basename(node), config_file.shot_regex)

Parseable == SelectSeq(selected, LAMBDA n : ShotOf(n) # None /\ ShotOf(n) # <<>>)

\* C7: a run that was not cancelled leaves its loop, and ends, with one
\* (version-zero, latest) pair per parseable input, in input order;
\* unparseable inputs have no entry.
C7_OnePairPerParseableInput ==
    (pc \in {"after", "exit"} /\ ConfigOk /\ ~cancelled) =>
        /\ Len(entries) = Len(Parseable)
        /\ Len(v0_results) = Len(Parseable)
        /\ Len(latest_results) = Len(Parseable)
        /\ \A i \in 1..Len(Parseable) :
             LET x == ShotOf(Parseable[i])
             IN  /\ entries[i][1] = x
                 /\ entries[i][3] = Parseable[i]
                 /\ v0_results[i] =
                      _find_version_zero(x, ExpectedDir(x), config_file.file_extension)
                 /\ latest_results[i] =
                      _find_latest_version(x, ExpectedDir(x), config_file.file_extension,
                                           Basename(Parseable[i]))

\* an unparseable input between two parseable ones, one latest lookup absent
C7_Witness ==
    /\ pc = "exit"
    /\ ~cancelled
    /\ selected = <<In_S1, In_ref, In_S1a>>
    /\ Len(v0_results) = 2
    /\ Len(latest_results) = 2
    /\ latest_results[1] = None
    /\ latest_results[2] # None

LookupsStarted == Len(v0_results) + Len(latest_results)

\* C8 as stated: a poll before each of the two lookups of an entry, so that
\* after the signal at most one more lookup is started.
C8_Original ==
    /\ polls >= LookupsStarted
    /\ taskCancelled => LookupsStarted - signalAt.started <= 1

\* C8 amended: one poll per entry, before its version-zero lookup; after the
\* signal only the lookups of the entry already begun are started (at most
\* two), none of a later entry.
C8_PollOncePerEntry ==
    /\ polls = Len(v0_results) + (IF pc = "v0" \/ cancelled THEN 1 ELSE 0)
    /\ pc = "latest" => polls = Len(latest_results) + 1
    /\ taskCancelled =>
         /\ LookupsStarted - signalAt.started <= 2
         /\ Len(v0_results) <= signalAt.idx
         /\ Len(latest_results) <= signalAt.idx
         /\ signalAt.pc = "loop" => LookupsStarted = signalAt.started

\* the signal comes after the poll of the first entry: both its lookups run,
\* the poll of the second entry ends the loop
C8_Witness ==
    /\ taskCancelled
    /\ signalAt.pc = "v0"
    /\ signalAt.idx = 1
    /\ cancelled
    /\ Len(entries) >= 2
    /\ Len(v0_results) = 1
    /\ Len(latest_results) = 1

\* C10: without a readable configuration nothing is parsed, looked up or
\* created, and the one report of it is all the user gets.
C10_NoConfigNoBatch ==
    config_file.state \in {"missing", "unreadable"} =>
        /\ pc \in {"start", "exit"}
        /\ entries = <<>>
        /\ v0_results = <<>>
        /\ latest_results = <<>>
        /\ polls = 0
        /\ nodes = <<>>
        /\ pc = "start" => (messages = <<>> /\ ~raised)
        /\ pc = "exit" =>
             Len(messages) + (IF raised THEN 1 ELSE 0) = 1
        /\ (pc = "exit" /\ config_file.state = "missing") =>
             messages = << <<"Config not found">> >>

C10_Witness ==
    /\ config_file.state = "missing"
    /\ Len(selected) = 2
    /\ fs[Dir1].exists
    /\ pc = "exit"
    /\ messages = << <<"Config not found">> >>

====
